---------------------------- MODULE Spec2Model ----------------------------
(***************************************************************************)
(* Model of the request-handling core of yee: the per-request context, its *)
(* Next-driven middleware chain, the response helpers and the CSRF         *)
(* middleware.                                                             *)
(*                                                                         *)
(* One context serves one request.  Go's call stack is explicit (stack):   *)
(* a frame of context.Next, or a frame of a handler's Func.  A handler of  *)
(* kind "user" is arbitrary application code: at every step it chooses     *)
(* what to do (call Next, answer, return nil, return an error); a handler  *)
(* of kind "csrf" is the function CSRFWithConfig returns.                  *)
(*                                                                         *)
(* Strings are TLA+ strings; Bytes gives the bytes of those that are       *)
(* compared bytewise.  An absent value of Go (nil, a missing cookie) is    *)
(* the empty sequence and a present value v the sequence <<v>>.            *)
(***************************************************************************)
EXTENDS Integers, Sequences, FiniteSets, TLC

----------------------------------------------------------------------------
(* Bounds of the model *)

\* longest handler list of the chain specification
MaxHandlers == 4
\* most c.Next() calls one activation of a user handler makes
MaxNextCalls == 2
\* most c.Next() calls the router (the caller of the chain) makes
MaxTopCalls == 2
\* longest handler list of the response specification
MaxRespHandlers == 2
\* most response calls the handlers of one request make
MaxAnswers == 3
\* longest handler list with the CSRF middleware in it
MaxCSRFChain == 3

\* the tasks that share one context, and the Put and Get calls they make
\* between them
NumTasks == 2
MaxCalls == 3
\* longest handler list with the logger middleware in it
MaxLogChain == 3

----------------------------------------------------------------------------
(* State *)

VARIABLES
    handlers,   \* context.handlers: the kinds of the handlers, in list order
    index,      \* context.index
    intercept,  \* context.intercept
    stack,      \* the call stack, innermost frame last
    r,          \* context.r, the request: Method, Cookie, Header, Query, Form
    w,          \* context.w, the response: status (0: none committed),
                \* header, body (the chunks written), cookies (Set-Cookie)
    store,      \* context.store
    config,     \* the CSRFConfig the middleware was built with
    topCalls,   \* how many times the router has called c.Next()
    topReturns, \* how many of those calls have returned
    invoked,    \* history: handler indices in the order their invocation started
    failed,     \* history: the handlers that returned an error; h the index, at
                \* the number of invocations started by then, calls the Next()
                \* calls the handler had made
    quiet,      \* history: the handlers that returned nil without calling Next; h
                \* the index, at as above, halted the value of intercept afterwards
    csrf,       \* history of the CSRF middleware: outcome ("none", "400", "403",
                \* "allowed"), compared (validateCSRFToken was called), token
                \* (<<>>, or <<t>> with t the reference token it settled on)
    seen,       \* history: what the user handlers read with c.Get(config.Key)
    answers,    \* history: the response calls of the user handlers, in order:
                \* op the method of the context, code its status argument,
                \* ret what the call returned
    lock,       \* context.lock, a sync.RWMutex: writer the task that holds it
                \* for writing (0: none), readers the tasks that hold it for reading
    tasks,      \* the tasks (goroutines) that call Put and Get on the context:
                \* pc, the call in progress (op, key, val) and what Get returned
    started,    \* how many Put and Get calls the tasks have started
    lastPut,    \* history: per key, what the Puts have written last (<<>>: none)
    logged,     \* history: the lines the logger middleware has emitted
    scheme      \* what context.Scheme() returned (<<>>: not called yet)

chainVars == <<handlers, index, intercept, stack, topCalls, topReturns,
               invoked, failed, quiet>>

auxVars == <<lock, tasks, started, lastPut, logged, scheme>>

ioVars == <<r, w, store, config, csrf, seen, answers, auxVars>>

vars == <<handlers, index, intercept, stack, r, w, store, config, topCalls,
          topReturns, invoked, failed, quiet, csrf, seen, answers, lock, tasks,
          started, lastPut, logged, scheme>>

----------------------------------------------------------------------------
(* Helpers *)

Range(s) == {s[i] : i \in 1..Len(s)}

Top == stack[Len(stack)]

Pop(s) == SubSeq(s, 1, Len(s) - 1)

\* the stack with its innermost frame replaced
SetTop(s, f) == [s EXCEPT ![Len(s)] = f]

\* a frame of context.Next: h is the handler it is calling (-1: none),
\* ran the handlers it has called, errs those that returned an error to it
NextFrame == [fn |-> "Next", h |-> -1, pc |-> "loop", calls |-> 0,
              ran |-> {}, errs |-> {}, tok |-> ""]

\* a frame of handlers[i].Func; tok is the CSRF middleware's local token
FuncFrame(i) == [fn |-> handlers[i + 1], h |-> i, pc |-> "start", calls |-> 0,
                 ran |-> {}, errs |-> {}, tok |-> ""]

HandlerLists(kinds) == UNION {[1..n -> kinds] : n \in 0..MaxHandlers}

----------------------------------------------------------------------------
(* The request and the response *)

HeaderXCSRFToken == "X-CSRF-Token"
HeaderVary == "Vary"
HeaderCookie == "Cookie"
HeaderContentType == "Content-Type"
MIMETextPlainCharsetUTF8 == "text/plain; charset=UTF-8"
MIMETextHTMLCharsetUTF8 == "text/html; charset=UTF-8"
MIMEApplicationJSONCharsetUTF8 == "application/json; charset=UTF-8"

StatusBadRequest == 400
StatusForbidden == 403

\* the names of the headers and of the query and form parameters the model
\* follows
HeaderXForwardedProto == "X-Forwarded-Proto"
HeaderXForwardedProtocol == "X-Forwarded-Protocol"
HeaderXForwardedSsl == "X-Forwarded-Ssl"
HeaderXUrlScheme == "X-Url-Scheme"

HeaderNames ==
    {HeaderXCSRFToken, HeaderVary, HeaderContentType, "Location",
     HeaderXForwardedProto, HeaderXForwardedProtocol, HeaderXForwardedSsl,
     HeaderXUrlScheme}
ParamNames == {"csrf"}

\* []byte(s) for the token strings of the model: two of one length that
\* differ in the last byte, a proper prefix of them and the empty string
Bytes(s) ==
    CASE s = "" -> <<>>
      [] s = "a" -> <<97>>
      [] s = "ab" -> <<97, 98>>
      [] s = "ac" -> <<97, 99>>

NoHeaders == [n \in HeaderNames |-> ""]
NoParams == [n \in ParamNames |-> ""]

\* a response nothing was written to
NewResponse == [status |-> 0, header |-> NoHeaders, body |-> <<>>, cookies |-> <<>>]

\* http.ResponseWriter.WriteHeader: the first status written is committed,
\* a later call changes nothing
WriteHeader(w0, code) ==
    IF w0.status = 0 THEN [w0 EXCEPT !.status = code] ELSE w0

\* http.ResponseWriter.Write: commits 200 when no status was written
Write(w0, b) ==
    [WriteHeader(w0, 200) EXCEPT !.body = Append(@, b)]

\* the content type set whatever the header has
writeContentTypeAlways(w0, value) == [w0 EXCEPT !.header[HeaderContentType] = value]

\* context.writeContentType
writeContentType(w0, value) ==
    IF w0.header[HeaderContentType] = ""
    THEN [w0 EXCEPT !.header[HeaderContentType] = value]
    ELSE w0

BlobNoStatus(w0, code, contentType, b) ==
    Write(writeContentType(w0, contentType), b)

\* context.Blob
Blob(w0, code, contentType, b) ==
    Write(WriteHeader(writeContentType(w0, contentType), code), b)

\* context.HTML, through context.HTMLBlob
HTML(w0, code, html) == Blob(w0, code, MIMETextHTMLCharsetUTF8, html)

\* context.JSON: the encoder writes to c.w after the status
JSON(w0, code, i) ==
    Write(WriteHeader(writeContentType(w0, MIMEApplicationJSONCharsetUTF8), code), i)

\* context.String
String(w0, code, s) == Blob(w0, code, MIMETextPlainCharsetUTF8, s)

\* context.Status
Status(w0, code) == WriteHeader(w0, code)

InvalidRedirectCodeAbove309(code) == code < 300 \/ code > 309

\* context.Redirect refuses the code: ErrInvalidRedirectCode
InvalidRedirectCode(code) == code < 300 \/ code > 308

\* context.MiddError: the response it leaves (it returns err, never nil)
MiddError(w0, code, err) == String(w0, code, err)

\* context.ServerError(code, msg), called by the CSRF middleware: answers
\* with the message and returns it as an error, as MiddError does
ServerError(w0, code, msg) == MiddError(w0, code, msg)

\* context.SetHeader
SetHeader(w0, key, value) == [w0 EXCEPT !.header[key] = value]

\* context.GetHeader reads the header of the response writer c.w
GetHeader(key) == w.header[key]

\* context.QueryParam
QueryParam(name) == r.Query[name]

\* context.FormValue: http.Request.FormValue looks in the parsed form, in
\* which the body's parameters come before those of the URL query
FormValue(name) == IF r.Form[name] # "" THEN r.Form[name] ELSE r.Query[name]

\* context.Cookie(name): the request's cookie, <<>> for http.ErrNoCookie
Cookie(name) == r.Cookie

\* context.SetCookie: one more Set-Cookie header
SetCookie(w0, c) == [w0 EXCEPT !.cookies = Append(@, c)]

PutDrops(st, key, value) == st

\* context.Put
Put(st, key, value) == [k \in DOMAIN st \cup {key} |-> IF k = key THEN <<value>> ELSE st[k]]

\* context.Get: <<>> is nil
Get(key) == IF key \in DOMAIN store THEN store[key] ELSE <<>>

----------------------------------------------------------------------------
(* context.Next *)

EnterNextRestart(s) ==
    /\ index' = 0
    /\ stack' = Append(s, NextFrame)

\* c.index++ on entry, then the loop starts: what a caller's c.Next() does
\* to the stack s it is called on
EnterNext(s) ==
    /\ index' = index + 1
    /\ stack' = Append(s, NextFrame)

\* a frame of Next is innermost, at the test of its loop
AtLoop == stack # <<>> /\ Top.fn = "Next" /\ Top.pc = "loop"

HaltedNever == FALSE

\* "if c.intercept { break }"
Halted == intercept

\* the router calls c.Next(), at most max times
ServeHTTP(max) ==
    /\ stack = <<>>
    /\ topCalls < max
    /\ topCalls' = topCalls + 1
    /\ EnterNext(stack)
    /\ UNCHANGED <<handlers, intercept, topReturns, invoked, failed, quiet, ioVars>>

\* the loop test fails (c.index >= len(c.handlers)): Next returns
NextExit ==
    /\ AtLoop
    /\ ~(index < Len(handlers))
    /\ stack' = Pop(stack)
    /\ topReturns' = IF Len(stack) = 1 THEN topReturns + 1 ELSE topReturns
    /\ UNCHANGED <<handlers, index, intercept, topCalls, invoked, failed, quiet, ioVars>>

\* the loop body finds c.intercept set: break, Next returns
NextBreak ==
    /\ AtLoop
    /\ index < Len(handlers)
    /\ Halted
    /\ stack' = Pop(stack)
    /\ topReturns' = IF Len(stack) = 1 THEN topReturns + 1 ELSE topReturns
    /\ UNCHANGED <<handlers, index, intercept, topCalls, invoked, failed, quiet, ioVars>>

\* the loop body calls c.handlers[c.index].Func(c)
NextInvoke ==
    /\ AtLoop
    /\ index < Len(handlers)
    /\ ~Halted
    /\ stack' = Append(SetTop(stack, [Top EXCEPT !.pc = "call", !.h = index,
                                                 !.ran = @ \cup {index}]),
                       FuncFrame(index))
    /\ invoked' = Append(invoked, index)
    /\ UNCHANGED <<handlers, index, intercept, topCalls, topReturns, failed, quiet, ioVars>>

InterceptIgnoresErr(err) == intercept

InterceptAlways(err) == TRUE

\* what the loop does with the handler's result
InterceptAfter(err) == IF err THEN TRUE ELSE intercept

IndexSkips == index + 2

IndexStays == index

\* the loop's post statement c.index++
IndexAfterFunc == index + 1

\* the handler on top of the stack returns err to the Next frame below it:
\* "if err != nil { c.intercept = true }", then the loop's c.index++
ReturnToNext(err) ==
    LET me == Top
        below == Pop(stack)
        nf == below[Len(below)]
    IN  /\ intercept' = InterceptAfter(err)
        /\ index' = IndexAfterFunc
        /\ stack' = SetTop(below, [nf EXCEPT !.pc = "loop", !.h = -1,
                              !.errs = IF err THEN @ \cup {me.h} ELSE @])
        /\ failed' = IF err
                     THEN failed \cup {[h |-> me.h, at |-> Len(invoked),
                                        calls |-> me.calls]}
                     ELSE failed
        /\ quiet' = IF ~err /\ me.calls = 0
                    THEN quiet \cup {[h |-> me.h, at |-> Len(invoked),
                                      halted |-> InterceptAfter(err)]}
                    ELSE quiet

----------------------------------------------------------------------------
(* A handler of the application *)

UserRunning == stack # <<>> /\ Top.fn = "user"

\* the handler calls c.Next(), at most max times in one activation
UserCallNext(max) ==
    /\ UserRunning
    /\ Top.calls < max
    /\ EnterNext(SetTop(stack, [Top EXCEPT !.calls = @ + 1]))
    /\ UNCHANGED <<handlers, intercept, topCalls, topReturns, invoked, failed, quiet, ioVars>>

\* the handler returns nil
UserReturnNil ==
    /\ UserRunning
    /\ ReturnToNext(FALSE)
    /\ UNCHANGED <<handlers, topCalls, topReturns, invoked, ioVars>>

\* the handler returns an error
UserReturnErr ==
    /\ UserRunning
    /\ ReturnToNext(TRUE)
    /\ UNCHANGED <<handlers, topCalls, topReturns, invoked, ioVars>>

\* the handler calls c.SetHeader(HeaderXCSRFToken, v): a response header
UserSetHeader ==
    /\ UserRunning
    /\ w.header[HeaderXCSRFToken] = ""
    /\ \E v \in {"ab"} : w' = SetHeader(w, HeaderXCSRFToken, v)
    /\ UNCHANGED <<chainVars, r, store, config, csrf, seen, answers, auxVars>>

\* the handler calls c.Get(config.Key), once
UserGet ==
    /\ UserRunning
    /\ \A g \in seen : g.h # Top.h
    /\ seen' = seen \cup {[h |-> Top.h, v |-> Get(config.Key)]}
    /\ UNCHANGED <<chainVars, r, w, store, config, csrf, answers, auxVars>>

----------------------------------------------------------------------------
(* The response calls of a handler of the application *)

\* the status codes the handlers answer with, and those they redirect with
Codes == {200, 404}
RedirectCodes == {299, 300, 308, 309}

CanAnswer == UserRunning /\ Len(answers) < MaxAnswers

Answered(op, code, ret) ==
    answers' = Append(answers, [op |-> op, code |-> code, ret |-> ret])

\* c.Status(code)
UserStatus ==
    /\ CanAnswer
    /\ \E code \in Codes : w' = Status(w, code) /\ Answered("Status", code, "")
    /\ UNCHANGED <<chainVars, r, store, config, csrf, seen, auxVars>>

\* c.String(code, s)
UserString ==
    /\ CanAnswer
    /\ \E code \in Codes : w' = String(w, code, "s") /\ Answered("String", code, "nil")
    /\ UNCHANGED <<chainVars, r, store, config, csrf, seen, auxVars>>

\* c.HTML(code, html)
UserHTML ==
    /\ CanAnswer
    /\ \E code \in Codes : w' = HTML(w, code, "<p>") /\ Answered("HTML", code, "nil")
    /\ UNCHANGED <<chainVars, r, store, config, csrf, seen, auxVars>>

\* c.JSON(code, i)
UserJSON ==
    /\ CanAnswer
    /\ \E code \in Codes : w' = JSON(w, code, "{}") /\ Answered("JSON", code, "nil")
    /\ UNCHANGED <<chainVars, r, store, config, csrf, seen, auxVars>>

\* c.MiddError(code, err); what the handler does with the error it gets
\* back is its next step
UserMiddError ==
    /\ CanAnswer
    /\ \E code \in Codes :
           w' = MiddError(w, code, "err") /\ Answered("MiddError", code, "err")
    /\ UNCHANGED <<chainVars, r, store, config, csrf, seen, auxVars>>

\* the handler sets the content type itself, before anything has set it:
\* c.SetHeader(HeaderContentType, "image/png")
UserSetContentType ==
    /\ UserRunning
    /\ w.header[HeaderContentType] = ""
    /\ w' = SetHeader(w, HeaderContentType, "image/png")
    /\ UNCHANGED <<chainVars, r, store, config, csrf, seen, answers, auxVars>>

\* c.Redirect(code, uri): an error for a code outside 300..308, else the
\* Location header is set on c.r and the status written
UserRedirect ==
    /\ CanAnswer
    /\ \E code \in RedirectCodes :
           IF InvalidRedirectCode(code)
           THEN /\ Answered("Redirect", code, "ErrInvalidRedirectCode")
                /\ UNCHANGED <<r, w>>
           ELSE /\ Answered("Redirect", code, "nil")
                /\ r' = [r EXCEPT !.Header["Location"] = "/x"]
                /\ w' = WriteHeader(w, code)
    /\ UNCHANGED <<chainVars, store, config, csrf, seen, auxVars>>

----------------------------------------------------------------------------
(* The CSRF middleware *)

CSRFDefaultConfig ==
    [TokenLength |-> 16, TokenLookup |-> <<"header", HeaderXCSRFToken>>,
     Key |-> "csrf", CookieName |-> "_csrf", CookieMaxAge |-> 28800]

\* a CSRFConfig with nothing set
ZeroConfig ==
    [TokenLength |-> 0, TokenLookup |-> <<>>, Key |-> "", CookieName |-> "",
     CookieMaxAge |-> 0]

\* the configurations the middleware is built with: the lookup is unset or
\* one of "header:X-CSRF-Token", "query:csrf", "form:csrf" (split at ":")
Configs ==
    {[ZeroConfig EXCEPT !.TokenLookup = l] :
        l \in {<<>>, <<"header", HeaderXCSRFToken>>, <<"query", "csrf">>,
               <<"form", "csrf">>}}

\* CSRFWithConfig, before it builds the handler: unset options take the
\* defaults
WithDefaults(c) ==
    [TokenLength |-> IF c.TokenLength = 0 THEN CSRFDefaultConfig.TokenLength
                     ELSE c.TokenLength,
     TokenLookup |-> IF c.TokenLookup = <<>> THEN CSRFDefaultConfig.TokenLookup
                     ELSE c.TokenLookup,
     Key |-> IF c.Key = "" THEN CSRFDefaultConfig.Key ELSE c.Key,
     CookieName |-> IF c.CookieName = "" THEN CSRFDefaultConfig.CookieName
                    ELSE c.CookieName,
     CookieMaxAge |-> IF c.CookieMaxAge = 0 THEN CSRFDefaultConfig.CookieMaxAge
                      ELSE c.CookieMaxAge]

\* proc := strings.Split(config.TokenLookup, ":")
proc == config.TokenLookup

\* csrfTokenFromHeader(header): "" stands for the error it returns
csrfTokenFromHeader(header) == GetHeader(header)

\* csrfTokenFromQuery(param)
csrfTokenFromQuery(param) == QueryParam(param)

\* csrfTokenFromForm(param)
csrfTokenFromForm(param) == FormValue(param)

\* the creator CSRFWithConfig selects, applied to the context
creator ==
    CASE proc[1] = "query" -> csrfTokenFromQuery(proc[2])
      [] proc[1] = "form" -> csrfTokenFromForm(proc[2])
      [] OTHER -> csrfTokenFromHeader(proc[2])

RECURSIVE BitXor(_, _)
\* x ^ y on bytes
BitXor(x, y) ==
    IF x = 0 /\ y = 0 THEN 0
    ELSE (((x % 2) + (y % 2)) % 2) + 2 * BitXor(x \div 2, y \div 2)

RECURSIVE BitOr(_, _)
\* x | y on bytes
BitOr(x, y) ==
    IF x = 0 /\ y = 0 THEN 0
    ELSE (IF x % 2 = 1 \/ y % 2 = 1 THEN 1 ELSE 0) + 2 * BitOr(x \div 2, y \div 2)

RECURSIVE XorFold(_, _, _)
\* v |= x[i] ^ y[i], for i from n down
XorFold(x, y, n) ==
    IF n = 0 THEN 0 ELSE BitOr(XorFold(x, y, n - 1), BitXor(x[n], y[n]))

\* subtle.ConstantTimeCompare
ConstantTimeCompare(x, y) ==
    IF Len(x) # Len(y) THEN 0
    ELSE IF XorFold(x, y, Len(x)) = 0 THEN 1 ELSE 0

\* validateCSRFToken
validateCSRFToken(token, clientToken) ==
    ConstantTimeCompare(Bytes(token), Bytes(clientToken)) = 1

\* the methods the middleware lets through unchecked
SafeMethod(m) == m \in {"GET", "TRACE", "OPTIONS", "HEAD"}

\* the values strings.Replace(uuid.New().String(), "-", "", -1) may take
UUIDs == {"ab", "ac"}

CSRFAt(pc) == stack # <<>> /\ Top.fn = "csrf" /\ Top.pc = pc

\* what the middleware gives a request it lets through: the cookies of the
\* response, the store and the Vary header
Issued(w0, st) == [cookies |-> w0.cookies, store |-> st, vary |-> w0.header[HeaderVary]]

\* the middleware reads the cookie and settles on the reference token
CSRFToken ==
    /\ CSRFAt("start")
    /\ \E token \in (IF Cookie(config.CookieName) = <<>> THEN UUIDs
                     ELSE {Cookie(config.CookieName)[1]}) :
           /\ stack' = SetTop(stack, [Top EXCEPT !.pc = "check", !.tok = token])
           /\ csrf' = [csrf EXCEPT !.token = <<token>>, !.before = Issued(w, store)]
    /\ UNCHANGED <<handlers, index, intercept, topCalls, topReturns, invoked,
                   failed, quiet, r, w, store, config, seen, answers, auxVars>>

\* unsafe method, no client token: ServerError(400) and the error is returned
CSRFReject400 ==
    /\ CSRFAt("check")
    /\ ~SafeMethod(r.Method)
    /\ creator = ""
    /\ w' = ServerError(w, StatusBadRequest, "missing csrf token")
    /\ csrf' = [csrf EXCEPT !.outcome = "400"]
    /\ ReturnToNext(TRUE)
    /\ UNCHANGED <<handlers, topCalls, topReturns, invoked, r, store, config, seen,
                   answers, auxVars>>

\* the cookie issued, the token stored and Vary set before the client token
\* is found not to be the reference token
CSRFReject403AfterIssue ==
    /\ CSRFAt("check")
    /\ ~SafeMethod(r.Method)
    /\ creator # ""
    /\ ~validateCSRFToken(Top.tok, creator)
    /\ LET nCookie == [Name |-> config.CookieName, Value |-> Top.tok,
                       MaxAge |-> config.CookieMaxAge]
       IN  w' = ServerError(SetHeader(SetCookie(w, nCookie), HeaderVary, HeaderCookie),
                            StatusForbidden, "invalid csrf token")
    /\ store' = Put(store, config.Key, Top.tok)
    /\ csrf' = [csrf EXCEPT !.outcome = "403", !.compared = TRUE]
    /\ ReturnToNext(TRUE)
    /\ UNCHANGED <<handlers, topCalls, topReturns, invoked, r, config, seen,
                   answers, auxVars>>

\* unsafe method, the client token is not the reference token:
\* ServerError(403) and the error is returned
CSRFReject403 ==
    /\ CSRFAt("check")
    /\ ~SafeMethod(r.Method)
    /\ creator # ""
    /\ ~validateCSRFToken(Top.tok, creator)
    /\ w' = ServerError(w, StatusForbidden, "invalid csrf token")
    /\ csrf' = [csrf EXCEPT !.outcome = "403", !.compared = TRUE]
    /\ ReturnToNext(TRUE)
    /\ UNCHANGED <<handlers, topCalls, topReturns, invoked, r, store, config, seen,
                   answers, auxVars>>

\* safe method, or the client token is the reference token: the cookie is
\* issued, the token stored and Vary set
CSRFAllow ==
    /\ CSRFAt("check")
    /\ SafeMethod(r.Method) \/ (creator # "" /\ validateCSRFToken(Top.tok, creator))
    /\ LET nCookie == [Name |-> config.CookieName, Value |-> Top.tok,
                       MaxAge |-> config.CookieMaxAge]
       IN  w' = SetHeader(SetCookie(w, nCookie), HeaderVary, HeaderCookie)
    /\ store' = Put(store, config.Key, Top.tok)
    /\ csrf' = [csrf EXCEPT !.outcome = "allowed",
                            !.compared = ~SafeMethod(r.Method)]
    /\ stack' = SetTop(stack, [Top EXCEPT !.pc = "next"])
    /\ UNCHANGED <<handlers, index, intercept, topCalls, topReturns, invoked,
                   failed, quiet, r, config, seen, answers, auxVars>>

\* context.Next()
CSRFCallNext ==
    /\ CSRFAt("next")
    /\ EnterNext(SetTop(stack, [Top EXCEPT !.pc = "ret", !.calls = @ + 1]))
    /\ UNCHANGED <<handlers, intercept, topCalls, topReturns, invoked, failed,
                   quiet, ioVars>>

\* the middleware returns nil
CSRFReturn ==
    /\ CSRFAt("ret")
    /\ ReturnToNext(FALSE)
    /\ UNCHANGED <<handlers, topCalls, topReturns, invoked, ioVars>>

----------------------------------------------------------------------------
(* The logger middleware, in its two variants: "logger" is LoggerWithConfig *)
(* of part_001, "logger2" that of part_002                                  *)

Loggers == {"logger", "logger2"}

\* the statuses the handlers behind the logger answer with
LogCodes == {200, 404, 500}

\* context.Response().Status(): the status of the response, 0 while none
\* has been written
ResponseStatus == w.status

InfoBelow500(status) == IF status < 500 THEN "info" ELSE "warn"

\* part_001: logger.Info below 400, else logger.Warn
InfoOrWarn(status) == IF status < 400 THEN "info" ELSE "warn"

\* part_002: logger.Trace for 200, else logger.Warn
TraceOrWarn(status) == IF status = 200 THEN "trace" ELSE "warn"

\* the tags of the template that the model keeps: the method, and the
\* status as fmt.Sprintf("%d") prints it
Render == [method |-> r.Method, status |-> ResponseStatus]

\* the handlers that have a frame on the stack
Running == {stack[i].h : i \in {j \in 1..Len(stack) : stack[j].fn # "Next"}}

LoggerAt(pc) == stack # <<>> /\ Top.fn \in Loggers /\ Top.pc = pc

\* the line goes to the sink at this severity; at and open are history:
\* how many handler calls there have been and which handlers are running
Emitted(level) ==
    /\ logged' = Append(logged, [level |-> level, line |-> Render, h |-> Top.h,
                                 at |-> Len(invoked), open |-> Running])
    /\ stack' = SetTop(stack, [Top EXCEPT !.pc = "ret"])

LoggerLogsFirst ==
    /\ LoggerAt("start")
    /\ Emitted("info")
    /\ UNCHANGED <<handlers, index, intercept, topCalls, topReturns, invoked,
                   failed, quiet, r, w, store, config, csrf, seen, answers, lock,
                   tasks, started, lastPut, scheme>>

\* context.Next(), first
LoggerCallNext ==
    /\ LoggerAt("start")
    /\ EnterNext(SetTop(stack, [Top EXCEPT !.pc = "log", !.calls = @ + 1]))
    /\ UNCHANGED <<handlers, intercept, topCalls, topReturns, invoked, failed,
                   quiet, ioVars>>

\* the template is rendered and the line handed to the sink
LoggerEmit ==
    /\ LoggerAt("log")
    /\ Emitted(IF Top.fn = "logger" THEN InfoOrWarn(ResponseStatus)
                                    ELSE TraceOrWarn(ResponseStatus))
    /\ UNCHANGED <<handlers, index, intercept, topCalls, topReturns, invoked,
                   failed, quiet, r, w, store, config, csrf, seen, answers, lock,
                   tasks, started, lastPut, scheme>>

\* the middleware returns nil
LoggerReturn ==
    /\ LoggerAt("ret")
    /\ ReturnToNext(FALSE)
    /\ UNCHANGED <<handlers, topCalls, topReturns, invoked, ioVars>>

\* a handler of the application answers c.String(code, s)
UserAnswer ==
    /\ CanAnswer
    /\ \E code \in LogCodes : w' = String(w, code, "s") /\ Answered("String", code, "nil")
    /\ UNCHANGED <<chainVars, r, store, config, csrf, seen, auxVars>>

----------------------------------------------------------------------------
(* context.Scheme() *)

\* X-Forwarded-Ssl looked at before the other headers
SchemeSslFirst ==
    IF r.Header[HeaderXForwardedSsl] = "on" THEN "https"
    ELSE IF r.Header[HeaderXForwardedProto] # "" THEN r.Header[HeaderXForwardedProto]
    ELSE IF r.Header[HeaderXForwardedProtocol] # ""
         THEN r.Header[HeaderXForwardedProtocol]
    ELSE IF r.Header[HeaderXUrlScheme] # "" THEN r.Header[HeaderXUrlScheme]
    ELSE "http"

\* the scheme of the request, from the headers a proxy sets
Scheme ==
    IF r.Header[HeaderXForwardedProto] # "" THEN r.Header[HeaderXForwardedProto]
    ELSE IF r.Header[HeaderXForwardedProtocol] # ""
         THEN r.Header[HeaderXForwardedProtocol]
    ELSE IF r.Header[HeaderXForwardedSsl] = "on" THEN "https"
    ELSE IF r.Header[HeaderXUrlScheme] # "" THEN r.Header[HeaderXUrlScheme]
    ELSE "http"

\* c.Scheme() is called
CallScheme ==
    /\ scheme = <<>>
    /\ scheme' = <<Scheme>>
    /\ UNCHANGED <<chainVars, r, w, store, config, csrf, seen, answers, lock,
                   tasks, started, lastPut, logged>>

\* requests with each of the four headers absent or set to one of two
\* values
SchemeRequests ==
    {[Method |-> "GET", Cookie |-> <<>>, Query |-> NoParams, Form |-> NoParams,
      Header |-> [NoHeaders EXCEPT ![HeaderXForwardedProto] = p,
                                   ![HeaderXForwardedProtocol] = q,
                                   ![HeaderXForwardedSsl] = s,
                                   ![HeaderXUrlScheme] = u]] :
        p \in {"", "ws", "https"}, q \in {"", "wss", "http"},
        s \in {"", "on", "off"}, u \in {"", "ftp", "https"}}

----------------------------------------------------------------------------
(* Put and Get called by several tasks on one context *)

Tasks == 1..NumTasks

\* the keys and values the tasks use
Keys == {"csrf", "k"}
Values == {"v1", "v2"}

\* the zero value of sync.RWMutex
Unlocked == [writer |-> 0, readers |-> {}]

\* a task that is in neither Put nor Get
Idle == [pc |-> "idle", op |-> "none", key |-> "", val |-> "", ret |-> <<>>]

At(t, op, pc) == tasks[t].op = op /\ tasks[t].pc = pc

Goto(t, pc) == tasks' = [tasks EXCEPT ![t].pc = pc]

\* c.lock.Lock() returns once nobody holds the lock
CanLockShared(t) == lock.writer = 0

CanLock(t) == lock.writer = 0 /\ lock.readers = {}

\* c.lock.RLock() returns once nobody holds the lock for writing
CanRLockAlways(t) == TRUE

CanRLock(t) == lock.writer = 0

\* c.lock.RUnlock()
RUnlockKeeps(l, t) == l

RUnlock(l, t) == [l EXCEPT !.readers = @ \ {t}]

\* a task calls c.Put(key, values)
StartPut(t) ==
    /\ tasks[t].pc = "idle"
    /\ started < MaxCalls
    /\ started' = started + 1
    /\ \E k \in Keys, v \in Values :
           tasks' = [tasks EXCEPT ![t] = [pc |-> "lock", op |-> "Put", key |-> k,
                                          val |-> v, ret |-> <<>>]]
    /\ UNCHANGED <<chainVars, r, w, store, config, csrf, seen, answers, lock,
                   lastPut, logged, scheme>>

\* c.lock.Lock()
PutLock(t) ==
    /\ At(t, "Put", "lock")
    /\ CanLock(t)
    /\ lock' = [lock EXCEPT !.writer = t]
    /\ Goto(t, "write")
    /\ UNCHANGED <<chainVars, r, w, store, config, csrf, seen, answers, started,
                   lastPut, logged, scheme>>

\* the map is made if c.store is nil, and c.store[key] = values
PutWrite(t) ==
    /\ At(t, "Put", "write")
    /\ store' = Put(store, tasks[t].key, tasks[t].val)
    /\ lastPut' = [lastPut EXCEPT ![tasks[t].key] = <<tasks[t].val>>]
    /\ Goto(t, "unlock")
    /\ UNCHANGED <<chainVars, r, w, config, csrf, seen, answers, lock, started,
                   logged, scheme>>

\* the deferred c.lock.Unlock(), and Put returns
PutUnlock(t) ==
    /\ At(t, "Put", "unlock")
    /\ lock' = [lock EXCEPT !.writer = 0]
    /\ Goto(t, "idle")
    /\ UNCHANGED <<chainVars, r, w, store, config, csrf, seen, answers, started,
                   lastPut, logged, scheme>>

\* a task calls c.Get(key)
StartGet(t) ==
    /\ tasks[t].pc = "idle"
    /\ started < MaxCalls
    /\ started' = started + 1
    /\ \E k \in Keys :
           tasks' = [tasks EXCEPT ![t] = [pc |-> "rlock", op |-> "Get", key |-> k,
                                          val |-> "", ret |-> <<>>]]
    /\ UNCHANGED <<chainVars, r, w, store, config, csrf, seen, answers, lock,
                   lastPut, logged, scheme>>

\* c.lock.RLock()
GetRLock(t) ==
    /\ At(t, "Get", "rlock")
    /\ CanRLock(t)
    /\ lock' = [lock EXCEPT !.readers = @ \cup {t}]
    /\ Goto(t, "read")
    /\ UNCHANGED <<chainVars, r, w, store, config, csrf, seen, answers, started,
                   lastPut, logged, scheme>>

\* another task is between Lock and Unlock with its write to the map pending
Racing(t) == \E u \in Tasks \ {t} : At(u, "Put", "write")

\* c.store[key]: the value of the key, nil (<<>>) for a key the map has
\* not and for a nil map; a read that races with a write to the map may
\* yield anything
GetRead(t) ==
    /\ At(t, "Get", "read")
    /\ \E v \in IF Racing(t) THEN {<<>>} \cup {<<x>> : x \in Values}
                             ELSE {Get(tasks[t].key)} :
           tasks' = [tasks EXCEPT ![t].ret = v, ![t].pc = "runlock"]
    /\ UNCHANGED <<chainVars, r, w, store, config, csrf, seen, answers, lock,
                   started, lastPut, logged, scheme>>

\* the deferred c.lock.RUnlock(), and Get returns
GetRUnlock(t) ==
    /\ At(t, "Get", "runlock")
    /\ lock' = RUnlock(lock, t)
    /\ Goto(t, "idle")
    /\ UNCHANGED <<chainVars, r, w, store, config, csrf, seen, answers, started,
                   lastPut, logged, scheme>>

\* the steps of a call in progress
CallStep(t) ==
    \/ PutLock(t)
    \/ PutWrite(t)
    \/ PutUnlock(t)
    \/ GetRLock(t)
    \/ GetRead(t)
    \/ GetRUnlock(t)

----------------------------------------------------------------------------
(* The chain with handlers of the application only *)

\* a GET request with no cookie, header or parameter
PlainRequests ==
    {[Method |-> "GET", Cookie |-> <<>>, Header |-> NoHeaders, Query |-> NoParams,
      Form |-> NoParams]}

\* newContext and what the router sets before it calls Next, for the
\* handler lists hs and the middleware configurations cs; the request is the
\* caller's to choose
InitWith(hs, cs) ==
    /\ handlers \in hs
    /\ index = -1
    /\ intercept = FALSE
    /\ stack = <<>>
    /\ config \in {WithDefaults(c) : c \in cs}
    /\ w = NewResponse
    /\ store = <<>>
    /\ topCalls = 0
    /\ topReturns = 0
    /\ invoked = <<>>
    /\ failed = {}
    /\ quiet = {}
    /\ csrf = [outcome |-> "none", compared |-> FALSE, token |-> <<>>,
               before |-> Issued(NewResponse, <<>>)]
    /\ seen = {}
    /\ answers = <<>>
    /\ lock = Unlocked
    /\ tasks = [t \in Tasks |-> Idle]
    /\ started = 0
    /\ lastPut = [k \in Keys |-> <<>>]
    /\ logged = <<>>
    /\ scheme = <<>>

Init ==
    /\ InitWith(HandlerLists({"user"}), {ZeroConfig})
    /\ r \in PlainRequests

Next ==
    \/ ServeHTTP(MaxTopCalls)
    \/ NextExit
    \/ NextBreak
    \/ NextInvoke
    \/ UserCallNext(MaxNextCalls)
    \/ UserReturnNil
    \/ UserReturnErr

Spec == Init /\ [][Next]_vars

----------------------------------------------------------------------------
(* The chain with the CSRF middleware in it *)

Methods == {"GET", "HEAD", "OPTIONS", "TRACE", "POST"}

\* the CSRF middleware once, with user handlers before and after it
CSRFChains ==
    {hs \in UNION {[1..n -> {"user", "csrf"}] : n \in 1..MaxCSRFChain} :
        Cardinality({i \in 1..Len(hs) : hs[i] = "csrf"}) = 1}

\* the requests for a middleware that looks the client token up at the
\* place lookup: any method, with or without the _csrf cookie, and with or
\* without a token in the request's header, query parameter or form field
\* that lookup names
CSRFRequests(lookup) ==
    {[Method |-> m, Cookie |-> c,
      Header |-> [NoHeaders EXCEPT ![HeaderXCSRFToken] =
                      IF lookup[1] = "header" THEN t ELSE ""],
      Query |-> [NoParams EXCEPT !["csrf"] = IF lookup[1] = "query" THEN t ELSE ""],
      Form |-> [NoParams EXCEPT !["csrf"] = IF lookup[1] = "form" THEN t ELSE ""]] :
        m \in Methods, c \in {<<>>, <<"ab">>, <<"a">>}, t \in {"", "ab"}}

InitCSRF ==
    /\ InitWith(CSRFChains, Configs)
    /\ r \in CSRFRequests(config.TokenLookup)

NextCSRF ==
    \/ ServeHTTP(1)
    \/ NextExit
    \/ NextBreak
    \/ NextInvoke
    \/ UserCallNext(1)
    \/ UserReturnNil
    \/ UserReturnErr
    \/ UserSetHeader
    \/ UserGet
    \/ CSRFToken
    \/ CSRFReject400
    \/ CSRFReject403
    \/ CSRFAllow
    \/ CSRFCallNext
    \/ CSRFReturn

SpecCSRF == InitCSRF /\ [][NextCSRF]_vars

----------------------------------------------------------------------------
(* The chain with handlers that answer.  These handlers leave it to the    *)
(* loop of the router's Next to run the handler after them.                *)

RespLists == UNION {[1..n -> {"user"}] : n \in 0..MaxRespHandlers}

InitResp ==
    /\ InitWith(RespLists, {ZeroConfig})
    /\ r \in PlainRequests

NextResp ==
    \/ ServeHTTP(1)
    \/ NextExit
    \/ NextBreak
    \/ NextInvoke
    \/ UserReturnNil
    \/ UserReturnErr
    \/ UserStatus
    \/ UserString
    \/ UserHTML
    \/ UserJSON
    \/ UserMiddError
    \/ UserRedirect
    \/ UserSetContentType

SpecResp == InitResp /\ [][NextResp]_vars

----------------------------------------------------------------------------
(* The context with tasks that call Put and Get on it.  A task that is in  *)
(* a call is scheduled again: the call takes its next step when it can.    *)

InitStore ==
    /\ InitWith({<<>>}, {ZeroConfig})
    /\ r \in PlainRequests

NextStore ==
    \/ \E t \in Tasks : StartPut(t)
    \/ \E t \in Tasks : StartGet(t)
    \/ \E t \in Tasks : PutLock(t)
    \/ \E t \in Tasks : PutWrite(t)
    \/ \E t \in Tasks : PutUnlock(t)
    \/ \E t \in Tasks : GetRLock(t)
    \/ \E t \in Tasks : GetRead(t)
    \/ \E t \in Tasks : GetRUnlock(t)

SpecStore ==
    InitStore /\ [][NextStore]_vars /\ \A t \in Tasks : WF_vars(CallStep(t))

----------------------------------------------------------------------------
(* The chain with the logger middleware in it *)

\* one logger, of either variant, with user handlers before and after it
LogChains ==
    {hs \in UNION {[1..n -> {"user"} \cup Loggers] : n \in 1..MaxLogChain} :
        Cardinality({i \in 1..Len(hs) : hs[i] \in Loggers}) = 1}

InitLog ==
    /\ InitWith(LogChains, {ZeroConfig})
    /\ r \in PlainRequests

NextLog ==
    \/ ServeHTTP(1)
    \/ NextExit
    \/ NextBreak
    \/ NextInvoke
    \/ UserCallNext(1)
    \/ UserReturnNil
    \/ UserReturnErr
    \/ UserAnswer
    \/ LoggerCallNext
    \/ LoggerEmit
    \/ LoggerReturn

SpecLog == InitLog /\ [][NextLog]_vars

----------------------------------------------------------------------------
(* The context of a request that came through a proxy *)

InitScheme ==
    /\ InitWith({<<>>}, {ZeroConfig})
    /\ r \in SchemeRequests

NextScheme == CallScheme

SpecScheme == InitScheme /\ [][NextScheme]_vars

----------------------------------------------------------------------------
(* The executor's properties *)

\* C1: whatever the handlers do (each calls Next() zero, one or several
\* times, nested, and returns an error or not) and however often the router
\* calls Next(), no handler index is invoked more than once.
C1_InvokedAtMostOnce ==
    \A m, n \in 1..Len(invoked) : invoked[m] = invoked[n] => m = n

\* every handler of a full list has run although Next() was re-entered by a
\* handler and called a second time by the router
C1_Witness ==
    /\ Len(handlers) = 4
    /\ Len(invoked) = 4
    /\ topReturns = 2
    /\ \E p \in failed : p.calls = 2

\* C2 as stated: after a handler has returned nil without calling Next(), no
\* handler at a later index is invoked and intercept stays false.
C2_QuietReturnEndsChain ==
    \A p \in quiet :
        /\ \A n \in (p.at + 1)..Len(invoked) : invoked[n] <= p.h
        /\ ~intercept

\* C2 as the code has it: a handler that returns nil without calling Next()
\* leaves intercept false, and the chain goes on: the loop of the Next that
\* called it advances to the next index and, as long as the chain is not
\* halted, invokes the handler there.
C2_QuietReturnContinues ==
    \A p \in quiet :
        /\ ~p.halted
        /\ (p.h + 1 < Len(handlers) /\ ~intercept) =>
               \/ \E n \in (p.at + 1)..Len(invoked) : invoked[n] = p.h + 1
               \/ AtLoop /\ index = p.h + 1

\* a handler returned nil without calling Next() and the next one then ran
C2_Witness ==
    \E p \in quiet :
        /\ ~intercept
        /\ \E n \in (p.at + 1)..Len(invoked) : invoked[n] = p.h + 1

\* C3: once the handler at index k has returned an error, the Next that
\* called it calls no handler at an index above k, and no such handler is
\* invoked afterwards by any other frame either; handler k may have called
\* Next() itself before it failed.
C3_NothingAfterFailure ==
    /\ \A f \in 1..Len(stack) :
           stack[f].fn = "Next" =>
               \A k \in stack[f].errs : \A j \in stack[f].ran : j <= k
    /\ \A p \in failed :
           \A n \in (p.at + 1)..Len(invoked) : invoked[n] <= p.h

\* handler k < last called Next() and then returned an error to a Next frame
\* that is still running
C3_Witness ==
    /\ stack # <<>>
    /\ \E p \in failed :
           /\ p.calls > 0
           /\ p.h + 1 < Len(handlers)
           /\ p.h \in Top.errs

\* C4: once intercept is true no handler invocation starts, whoever enters
\* or re-enters Next(); the frames on the stack only return.
C4_HaltedInvokesNothing ==
    [][intercept => /\ invoked' = invoked
                    /\ intercept'
                    /\ Len(stack') <= Len(stack) \/ stack'[Len(stack')].fn = "Next"]_vars

\* with the chain halted, the first handler, still running, has re-entered
\* Next() while a handler of the list has not run yet
C4_Witness ==
    /\ intercept
    /\ Len(stack) = 3
    /\ stack[2].calls = 2
    /\ AtLoop
    /\ index < Len(handlers)

\* C5: handler invocations start in list order: of two handlers that were
\* both invoked, the one with the smaller index started first.
C5_InvokedInListOrder ==
    \A m, n \in 1..Len(invoked) : m < n => invoked[m] < invoked[n]

\* a full chain run over the longest list, with nesting, ended by a failure
C5_Witness ==
    /\ Len(handlers) = 4
    /\ invoked = <<0, 1, 2, 3>>
    /\ topReturns >= 1
    /\ intercept
    /\ \E q \in quiet : TRUE

\* C19: if no handler has returned an error, then once the router's call of
\* Next() has returned every handler of the list has been invoked exactly
\* once, whether the handlers called Next() themselves or left it to the
\* loop.
C19_AllInvokedOnce ==
    (topReturns >= 1 /\ failed = {}) =>
        \A i \in 0..(Len(handlers) - 1) :
            Cardinality({n \in 1..Len(invoked) : invoked[n] = i}) = 1

\* the router's one call has returned from a full list without a failure:
\* the first handler left the rest to the loop, the second called Next()
C19_Witness ==
    /\ Len(handlers) = 4
    /\ topCalls = 1
    /\ topReturns = 1
    /\ failed = {}
    /\ \E q \in quiet : q.h = 0
    /\ \A q \in quiet : q.h # 1
    /\ Len(invoked) = 4

----------------------------------------------------------------------------
(* The CSRF middleware's properties, under SpecCSRF *)

\* the position of the CSRF middleware in the handler list
CSRFIndex == CHOOSE i \in 0..(Len(handlers) - 1) : handlers[i + 1] = "csrf"

\* the token the request carries at the place the configuration names: its
\* header, its query parameter or its form field ("": none)
ClientField ==
    CASE proc[1] = "query" -> r.Query[proc[2]]
      [] proc[1] = "form" -> r.Form[proc[2]]
      [] OTHER -> r.Header[proc[2]]

\* the middleware has issued the cookie that carries its reference token
CookieIssued ==
    \E i \in 1..Len(w.cookies) :
        /\ w.cookies[i].Name = config.CookieName
        /\ <<w.cookies[i].Value>> = csrf.token

\* C6: with the default lookup "header:X-CSRF-Token", a POST that carries one
\* token both as the _csrf cookie and as the X-CSRF-Token request header
\* passes the middleware, and the chain goes on to the terminal handler.
C6_ReplayedTokenPasses ==
    (/\ proc = <<"header", HeaderXCSRFToken>>
     /\ r.Method = "POST"
     /\ r.Cookie # <<>>
     /\ r.Header[HeaderXCSRFToken] # ""
     /\ <<r.Header[HeaderXCSRFToken]>> = r.Cookie
     /\ csrf.outcome # "none")
    => /\ csrf.outcome = "allowed"
       /\ (topReturns = 1 /\ failed = {}) =>
              \A i \in 0..(Len(handlers) - 1) : i \in Range(invoked)

\* C7: for an unsafe method the middleware answers 400, without comparing,
\* when the request carries no token at the configured place; else 403 when
\* that token is not the reference token; else it lets the request through.
C7_DecisionOrder ==
    (~SafeMethod(r.Method) /\ csrf.outcome # "none") =>
        /\ ClientField = "" => (csrf.outcome = "400" /\ ~csrf.compared)
        /\ (ClientField # "" /\ <<ClientField>> # csrf.token) => csrf.outcome = "403"
        /\ (ClientField # "" /\ <<ClientField>> = csrf.token) => csrf.outcome = "allowed"

\* C8: when the middleware rejects the request (400 or 403) it has written
\* the error response and returned an error without calling Next(); the
\* chain is halted and no handler after the middleware is ever invoked.
C8_RejectHalts ==
    csrf.outcome \in {"400", "403"} =>
        /\ w.status = (IF csrf.outcome = "400" THEN StatusBadRequest
                       ELSE StatusForbidden)
        /\ w.body # <<>>
        /\ \E p \in failed : p.h = CSRFIndex /\ p.calls = 0
        /\ intercept
        /\ \A n \in 1..Len(invoked) : invoked[n] <= CSRFIndex

\* the request was rejected with 403, the router's call has returned and the
\* handler after the middleware has not run
C8_Witness ==
    /\ csrf.outcome = "403"
    /\ topReturns = 1
    /\ CSRFIndex + 1 < Len(handlers)
    /\ CSRFIndex > 0

\* C9: on the allowed path the cookie with the reference token is issued,
\* Vary: Cookie is set and the token is stored under the configured key
\* before any handler after the middleware is invoked, so that what such a
\* handler reads with Get(key) is the token of the issued cookie.
C9_IssuedBeforeDownstream ==
    /\ (csrf.outcome = "allowed" \/ \E n \in 1..Len(invoked) : invoked[n] > CSRFIndex) =>
           /\ csrf.outcome = "allowed"
           /\ CookieIssued
           /\ w.header[HeaderVary] = HeaderCookie
           /\ Get(config.Key) = csrf.token
    /\ \A g \in seen : g.h > CSRFIndex => (g.v = csrf.token /\ g.v # <<>>)

\* a POST passed validation and the handler after the middleware has read
\* the token from the store
C9_Witness ==
    /\ ~SafeMethod(r.Method)
    /\ csrf.outcome = "allowed"
    /\ \E g \in seen : g.h > CSRFIndex

\* C20: when the middleware has rejected the request (400 or 403), the
\* cookies of the response, the store and the Vary header are what they
\* were when the middleware began: no cookie issued, nothing stored under
\* the configured key, Vary not set.
C20_RejectIssuesNothing ==
    csrf.outcome \in {"400", "403"} =>
        /\ Issued(w, store) = csrf.before
        /\ ~CookieIssued
        /\ config.Key \notin DOMAIN store
        /\ w.header[HeaderVary] # HeaderCookie

\* a request without a client token was rejected with 400 behind a handler
\* that had called Next(), and the router's call has returned
C20_Witness ==
    /\ csrf.outcome = "400"
    /\ w.status = StatusBadRequest
    /\ CSRFIndex > 0
    /\ topReturns = 1
    /\ \A q \in quiet : q.h # 0

----------------------------------------------------------------------------
(* The response's properties, under SpecResp *)

\* the response calls that write a status: all but a Redirect whose code
\* is refused
Writers == {n \in 1..Len(answers) :
               ~(answers[n].op = "Redirect" /\ InvalidRedirectCode(answers[n].code))}

\* C10 as stated: after the response calls of the handlers, the committed
\* status is the code of the first of them, whatever the later ones are.
C10_FirstCallWins ==
    answers # <<>> => w.status = answers[1].code

\* C10 as the code has it: the committed status is the code of the first
\* response call that writes a status (a helper, Status, MiddError, or a
\* Redirect with a code in 300..308); later calls do not change it, and a
\* Redirect with a refused code commits nothing.
C10_FirstWriterWins ==
    IF Writers = {} THEN w.status = 0
    ELSE w.status = answers[CHOOSE n \in Writers : \A m \in Writers : n <= m].code

\* a refused Redirect, then a helper, then Status with another code: the
\* helper's code is the committed one when the router's call has returned
C10_Witness ==
    /\ Len(answers) = 3
    /\ answers[1].op = "Redirect" /\ InvalidRedirectCode(answers[1].code)
    /\ answers[2].op = "String"
    /\ answers[3].op = "Status"
    /\ answers[2].code # answers[3].code
    /\ w.status = answers[2].code
    /\ topReturns = 1

----------------------------------------------------------------------------
(* The store's properties, under SpecStore *)

\* the task is between Lock and Unlock
InPut(t) == tasks[t].op = "Put" /\ tasks[t].pc \in {"write", "unlock"}

\* the task is between RLock and RUnlock
InGet(t) == tasks[t].op = "Get" /\ tasks[t].pc \in {"read", "runlock"}

\* C11: while a task is inside Put's critical section no other task is
\* inside Put's or Get's, and the value a Get(k) is about to return is the
\* one the last Put(k, v) before it wrote, or the absent value if there was
\* none.
C11_PutGetSerialized ==
    /\ \A t \in Tasks : InPut(t) => \A u \in Tasks \ {t} : ~InPut(u) /\ ~InGet(u)
    /\ \A t \in Tasks : At(t, "Get", "runlock") => tasks[t].ret = lastPut[tasks[t].key]

\* a Get has read the value of a Put while another Put waits for the lock
C11_Witness ==
    \E t \in Tasks, u \in Tasks :
        /\ At(t, "Get", "runlock")
        /\ tasks[t].ret = <<"v2">>
        /\ At(u, "Put", "lock")
        /\ tasks[u].key = tasks[t].key

\* C12: a Get of a key that no Put has written returns the absent value,
\* the read leaves the store as it is, and every call of Put or Get that a
\* task has started returns.
C12_AbsentKeyAndReturn ==
    /\ [](\A t \in Tasks : At(t, "Get", "runlock") /\ lastPut[tasks[t].key] = <<>>
                                => tasks[t].ret = <<>>)
    /\ [][\A t \in Tasks : At(t, "Get", "read") /\ tasks'[t].pc = "runlock"
                                => store' = store]_vars
    /\ \A t \in Tasks : (tasks[t].pc # "idle") ~> (tasks[t].pc = "idle")

\* a Get has read a key of a store that no Put has made yet, while a Put
\* waits for the lock
C12_Witness ==
    \E t \in Tasks, u \in Tasks :
        /\ At(t, "Get", "runlock")
        /\ tasks[t].ret = <<>>
        /\ DOMAIN store = {}
        /\ At(u, "Put", "lock")

----------------------------------------------------------------------------
(* Redirect's properties, under SpecResp *)

\* this step is a call of c.Redirect(code, "/x")
RedirectStep(code) ==
    /\ Len(answers') = Len(answers) + 1
    /\ answers'[Len(answers')].op = "Redirect"
    /\ answers'[Len(answers')].code = code

\* C13: Redirect with a code from 300 to 308 returns no error, leaves the
\* response with the header Location set to the uri, and commits the code
\* as the status (of a response that has none yet).
C13_RedirectSetsLocation ==
    [][\A code \in 300..308 :
          RedirectStep(code) =>
              /\ answers'[Len(answers')].ret = "nil"
              /\ w'.header["Location"] = "/x"
              /\ w.status = 0 => w'.status = code]_vars

\* C14: Redirect with a code below 300 or above 308 returns
\* ErrInvalidRedirectCode and changes nothing else: not the response (its
\* header, status and body), not the request, not the halt flag or the
\* cursor, not the store.
C14_RefusedRedirectNoEffect ==
    [][\A code \in RedirectCodes \ (300..308) :
          RedirectStep(code) =>
              /\ answers'[Len(answers')].ret = "ErrInvalidRedirectCode"
              /\ UNCHANGED <<w, r, intercept, index, stack, store>>]_vars

\* Redirect has refused 309, the first code above the range, on a response
\* that has no status, and the chain is not halted
C14_Witness ==
    /\ answers # <<>>
    /\ answers[Len(answers)] =
           [op |-> "Redirect", code |-> 309, ret |-> "ErrInvalidRedirectCode"]
    /\ w = NewResponse
    /\ ~intercept

----------------------------------------------------------------------------
(* The logger middleware's properties, under SpecLog *)

\* where the logger is in the list
LoggerIndex == CHOOSE i \in 0..(Len(handlers) - 1) : handlers[i + 1] \in Loggers

\* the logger has been called and has returned
LoggerDone == LoggerIndex \in Range(invoked) /\ LoggerIndex \notin Running

\* there is never a second line, and there is one when the logger returns
OneLine == Len(logged) <= 1 /\ (LoggerDone => Len(logged) = 1)

\* when the line l was emitted no handler behind the logger was running,
\* and none has been called since
AfterDownstream(l) ==
    /\ \A j \in l.open : j <= l.h
    /\ \A m \in 1..Len(invoked) : invoked[m] > l.h => m <= l.at

\* C15, as claimed: one line per request, emitted after every handler
\* behind the logger has returned, and the status in it is the status of
\* the response from then on.
C15_LogsFinalStatus ==
    /\ OneLine
    /\ \A n \in 1..Len(logged) :
           AfterDownstream(logged[n]) /\ logged[n].line.status = w.status

\* C15, amended: one line per request that reaches the logger, emitted
\* after every handler behind the logger has returned, none of which is
\* called afterwards; the status in it stays the status of the response if
\* one was written by then or if no handler precedes the logger.
C15_LogsDownstreamStatus ==
    /\ OneLine
    /\ \A n \in 1..Len(logged) :
           /\ AfterDownstream(logged[n])
           /\ (logged[n].h = 0 \/ logged[n].line.status # 0)
                  => logged[n].line.status = w.status

\* the router's call has returned, a handler behind the logger answered 500
\* and failed, and the logger's line has that status
C15_Witness ==
    /\ topReturns = 1
    /\ \E f \in failed : f.h > LoggerIndex
    /\ Len(logged) = 1
    /\ logged[1].line.status = 500

----------------------------------------------------------------------------
(* Scheme's property, under SpecScheme *)

\* C17: what Scheme() returns is X-Forwarded-Proto if that is not empty;
\* else X-Forwarded-Protocol if that is not empty; else "https" if
\* X-Forwarded-Ssl is "on"; else X-Url-Scheme if that is not empty; else
\* "http".
C17_SchemePriority ==
    scheme # <<>> =>
        LET proto == r.Header[HeaderXForwardedProto]
            protocol == r.Header[HeaderXForwardedProtocol]
            ssl == r.Header[HeaderXForwardedSsl]
            url == r.Header[HeaderXUrlScheme]
        IN  /\ proto # "" => scheme[1] = proto
            /\ proto = "" /\ protocol # "" => scheme[1] = protocol
            /\ proto = "" /\ protocol = "" /\ ssl = "on" => scheme[1] = "https"
            /\ proto = "" /\ protocol = "" /\ ssl # "on" /\ url # ""
                   => scheme[1] = url
            /\ proto = "" /\ protocol = "" /\ ssl # "on" /\ url = ""
                   => scheme[1] = "http"

\* Scheme() has answered "wss" from X-Forwarded-Protocol for a request that
\* has X-Forwarded-Ssl "on" and an X-Url-Scheme, and no X-Forwarded-Proto
C17_Witness ==
    /\ scheme = <<"wss">>
    /\ r.Header[HeaderXForwardedProto] = ""
    /\ r.Header[HeaderXForwardedSsl] = "on"
    /\ r.Header[HeaderXUrlScheme] = "ftp"

----------------------------------------------------------------------------
(* The content type's property, under SpecResp *)

\* the helpers that write a body, and the content type each one asks for
Helpers == {"HTML", "JSON", "String", "MiddError"}

DefaultType(op) ==
    CASE op = "HTML" -> MIMETextHTMLCharsetUTF8
      [] op = "JSON" -> MIMEApplicationJSONCharsetUTF8
      [] op \in {"String", "MiddError"} -> MIMETextPlainCharsetUTF8

\* C18: a call of HTML, JSON, String or MiddError leaves a Content-Type
\* that is already set as it is, and sets its own default type only if
\* there is none; so the header keeps the value the first call, or the
\* handler before it, gave it.
C18_ContentTypeFirstWins ==
    [][\A op \in Helpers :
          (Len(answers') = Len(answers) + 1 /\ answers'[Len(answers')].op = op) =>
              w'.header[HeaderContentType] =
                  (IF w.header[HeaderContentType] # ""
                   THEN w.header[HeaderContentType] ELSE DefaultType(op))]_vars

\* JSON was called first and MiddError after it, and the content type is
\* still JSON's
C18_Witness ==
    /\ Len(answers) >= 2
    /\ answers[1].op = "JSON"
    /\ answers[2].op = "MiddError"
    /\ w.header[HeaderContentType] = MIMEApplicationJSONCharsetUTF8

=============================================================================
